---- MODULE Spec2Model ----
(***************************************************************************)
(* A model of luiginlp/engine.py: the format matcher (InputFormat) and the *)
(* chain resolver (WorkflowComponent.setup_input / setup / workflow).      *)
(*                                                                         *)
(* Strings that the code slices or compares by suffix (paths, extensions)  *)
(* are sequences of one-character strings; names that the code only        *)
(* compares for equality (format ids, class names, exception names) are    *)
(* plain strings.                                                          *)
(***************************************************************************)
EXTENDS Integers, Sequences, FiniteSets, TLC

\* ------------------------------------------------------------------------
\* Bounds and input alphabets
\* ------------------------------------------------------------------------

\* longest input path drawn for the format matcher
MaxPathLen == 3
\* most extensions one format descriptor declares
MaxExts == 2

\* characters of paths: two cases of one letter, and the dot
Chars == {"a", "A", "."}

\* declared extensions drawn for the format matcher (never empty strings)
ExtChoices == {<<"a">>, <<"A">>, <<".", "a">>, <<"a", "a">>, <<".">>}

SeqsUpTo(S, n) == UNION {[1..k -> S] : k \in 0..n}

Paths == SeqsUpTo(Chars, MaxPathLen)

ExtLists == SeqsUpTo(ExtChoices, MaxExts)

\* ------------------------------------------------------------------------
\* Python string primitives used by InputFormat.__init__
\* ------------------------------------------------------------------------

\* a character folded to lower case
Lower(c) == IF c = "A" THEN "a" ELSE c

\* s.lower().endswith(suffix.lower()): the comparison made case-insensitive
EndsWithAnyCase(s, suffix) ==
    /\ Len(suffix) <= Len(s)
    /\ \A i \in 1..Len(suffix) :
          Lower(s[Len(s) - Len(suffix) + i]) = Lower(suffix[i])

\* s.endswith(suffix)
EndsWith(s, suffix) ==
    /\ Len(suffix) <= Len(s)
    /\ SubSeq(s, Len(s) - Len(suffix) + 1, Len(s)) = suffix

\* s[:-n] for n >= 1: the empty string when n >= len(s)
DropLast(s, n) ==
    IF n >= Len(s) THEN <<>> ELSE SubSeq(s, 1, Len(s) - n)

\* if extension[0] == '.': extension = extension[1:]
StripDot(extension) ==
    IF extension[1] = "." THEN Tail(extension) ELSE extension

\* os.path.exists(p) against the set of existing paths
PathExists(fs, p) == p \in fs

\* ------------------------------------------------------------------------
\* InputFormat.__init__
\* ------------------------------------------------------------------------

\* the object as left by the first lines of the constructor
NewInputFormat(format_id) ==
    [raised |-> "none", valid |-> FALSE, format_id |-> format_id,
     basename |-> <<>>, extension |-> <<>>]

\* the guard of the loop body with force left out
ExtensionMatchesUnforced(path, extension, force) ==
    EndsWith(path, <<".">> \o extension)

\* the guard of the loop body: the suffix matches, or the match is forced
ExtensionMatches(path, extension, force) ==
    EndsWith(path, <<".">> \o extension) \/ force

\* the object after the loop body ran for a matching extension
MatchedInputFormat(format_id, path, extension, fs) ==
    LET basename == DropLast(path, Len(extension) + 1)
    IN  IF ~PathExists(fs, basename \o <<".">> \o extension)
        THEN [raised |-> "FileNotFoundError", valid |-> FALSE,
              format_id |-> format_id,
              basename |-> basename, extension |-> extension]
        ELSE [raised |-> "none", valid |-> TRUE, format_id |-> format_id,
              basename |-> basename, extension |-> extension]

RECURSIVE MatchExtensions(_, _, _, _, _, _)
\* for extension in extensions: ... break
MatchExtensions(format_id, path, extensions, force, fs, i) ==
    IF i > Len(extensions) THEN NewInputFormat(format_id)
    ELSE LET extension == StripDot(extensions[i])
         IN  IF ExtensionMatches(path, extension, force)
             THEN MatchedInputFormat(format_id, path, extension, fs)
             ELSE MatchExtensions(format_id, path, extensions, force, fs, i + 1)

\* InputFormat(workflow, format_id, extension, inputparameter, force=force);
\* hasparam is hasattr(workflow, inputparameter), path is its value
InputFormat(hasparam, format_id, path, extensions, force, fs) ==
    IF ~hasparam
    THEN [NewInputFormat(format_id) EXCEPT !.raised = "AttributeError"]
    ELSE MatchExtensions(format_id, path, extensions, force, fs, 1)

\* InputFormat.__str__
InputFormatStr(f) ==
    IF f.valid THEN f.basename \o <<".">> \o f.extension ELSE <<>>

\* ------------------------------------------------------------------------
\* Declarations the resolver runs on: acceptance items, task classes and a
\* library of component classes
\* ------------------------------------------------------------------------

\* explicit keyword arguments of a component reference: none
NoKwargs == [k \in {} |-> ""]

\* an InputFormat(self, format_id, extension, force=force) entry of accepts()
Fmt(format_id, extension, force) ==
    [kind |-> "InputFormat", format_id |-> format_id, extension |-> extension,
     force |-> force, Class |-> "", kwargs |-> NoKwargs]

\* an InputComponent(self, Class, **kwargs) entry of accepts()
Comp(Class, kwargs) ==
    [kind |-> "InputComponent", format_id |-> "", extension |-> <<>>,
     force |-> FALSE, Class |-> Class, kwargs |-> kwargs]

\* a bare component class as an entry (also what accept() injects)
Bare(Class) ==
    [kind |-> "class", format_id |-> "", extension |-> <<>>,
     force |-> FALSE, Class |-> Class, kwargs |-> NoKwargs]

\* any other object as an entry
Other ==
    [kind |-> "other", format_id |-> "", extension |-> <<>>,
     force |-> FALSE, Class |-> "", kwargs |-> NoKwargs]

ExtT == <<"t">>
ExtC == <<"c">>

\* task classes: whether it is a Task subclass, its in_ slots, and its out_
\* slots in dir() (alphabetical) order
TaskClasses == {"TokTask", "TokTask2", "ConvTask", "SilentTask", "MultiTask",
                "NotATask"}

TaskDecl(T) ==
    CASE T = "TokTask"    -> [istask |-> TRUE, ins |-> {"txt"}, outs |-> <<"tok">>]
      [] T = "TokTask2"   -> [istask |-> TRUE, ins |-> {"txt"}, outs |-> <<"tok">>]
      [] T = "ConvTask"   -> [istask |-> TRUE, ins |-> {"doc"}, outs |-> <<"txt">>]
      [] T = "SilentTask" -> [istask |-> TRUE, ins |-> {"txt"}, outs |-> <<>>]
      [] T = "MultiTask"  -> [istask |-> TRUE, ins |-> {"txt"}, outs |-> <<"tok", "txt">>]
      [] T = "NotATask"   -> [istask |-> FALSE, ins |-> {}, outs |-> <<>>]

\* how a component class sets up its tasks: through autosetup() with a
\* configuration, through its own setup() (which raises, or returns the one
\* object listed, or a tuple of the objects listed when they are not one),
\* or not at all
AutoSetup(configuration) ==
    [kind |-> "autosetup", configuration |-> configuration,
     returns |-> <<>>, raises |-> "none"]
OwnSetup(returns) ==
    [kind |-> "setup", configuration |-> <<>>, returns |-> returns,
     raises |-> "none"]
RaisingSetup(exc) ==
    [kind |-> "setup", configuration |-> <<>>, returns |-> <<>>,
     raises |-> exc]
NoSetup ==
    [kind |-> "none", configuration |-> <<>>, returns |-> <<>>,
     raises |-> "none"]

\* the component classes of the library
Library == {"Tokenize", "Tokenize2", "Convert", "Silent", "Pair", "Multi",
            "Broken", "Picky", "Unset", "Untyped", "Loop", "Ping", "Pong",
            "Fallback", "Patient", "Mute", "Empty"}

\* accepts() of a library class, before its InputFormats are constructed
Accepts(Class) ==
    CASE Class = "Tokenize" ->
            << <<Fmt("txt", <<ExtT>>, FALSE)>>, <<Comp("Convert", NoKwargs)>> >>
      [] Class = "Convert"  -> << <<Fmt("doc", <<ExtC>>, FALSE)>> >>
      [] Class = "Loop"     -> << <<Comp("Loop", NoKwargs)>> >>
      [] Class = "Ping"     -> << <<Comp("Pong", NoKwargs)>> >>
      [] Class = "Pong"     -> << <<Fmt("doc", <<ExtC>>, FALSE)>>,
                                  <<Comp("Ping", NoKwargs)>> >>
      [] Class = "Fallback" -> << <<Comp("Broken", NoKwargs)>>,
                                  <<Fmt("txt", <<ExtT>>, FALSE)>> >>
      [] Class = "Patient"  -> << <<Comp("Picky", NoKwargs)>>,
                                  <<Fmt("txt", <<ExtT>>, FALSE)>> >>
      [] Class = "Mute"     -> << <<Comp("Silent", NoKwargs)>> >>
      [] Class = "Empty"    -> << >>
      [] OTHER              -> << <<Fmt("txt", <<ExtT>>, FALSE)>> >>

\* setup()/autosetup() of a library class
SetupDecl(Class) ==
    CASE Class = "Tokenize"  -> AutoSetup(<<"TokTask">>)
      [] Class = "Tokenize2" -> AutoSetup(<<"ConvTask", "TokTask2">>)
      [] Class = "Convert"   -> AutoSetup(<<"ConvTask">>)
      [] Class = "Silent"    -> OwnSetup(<<"SilentTask">>)
      [] Class = "Pair"      -> OwnSetup(<<"TokTask", "TokTask2">>)
      [] Class = "Multi"     -> OwnSetup(<<"MultiTask">>)
      [] Class = "Broken"    -> AutoSetup(<<"ConvTask">>)
      [] Class = "Picky"     -> RaisingSetup("InvalidInput")
      [] Class = "Unset"     -> NoSetup
      [] Class = "Untyped"   -> OwnSetup(<<"NotATask">>)
      [] Class = "Loop"      -> AutoSetup(<<"TokTask">>)
      [] Class = "Ping"      -> AutoSetup(<<"TokTask">>)
      [] Class = "Pong"      -> AutoSetup(<<"ConvTask">>)
      [] Class = "Fallback"  -> AutoSetup(<<"TokTask">>)
      [] Class = "Patient"   -> AutoSetup(<<"TokTask">>)
      [] Class = "Mute"      -> AutoSetup(<<"TokTask">>)
      [] Class = "Empty"     -> AutoSetup(<<"TokTask">>)

\* the luigi parameters a component class declares: startcomponent and
\* inputslot come with WorkflowComponent, inputfile with
\* StandardWorkflowComponent (every class of the library), the others with
\* the class itself
Parameters(Class) ==
    CASE Class = "Core"     -> {"startcomponent", "inputslot"}
      [] Class = "Lang"     -> {"inputfile", "startcomponent", "inputslot",
                                "language"}
      [] Class = "LangSkip" -> {"inputfile", "startcomponent", "inputslot",
                                "language", "skip"}
      [] OTHER              -> {"inputfile", "startcomponent", "inputslot"}

\* the parameters declared without a default
Required(key) == key = "inputfile"

\* the default of a parameter (inputfile has none; it is always supplied)
ParameterDefault(key) == ""

\* ------------------------------------------------------------------------
\* InputComponent.__init__ and component instantiation
\* ------------------------------------------------------------------------

\* the kwargs of an InputComponent after the automatic parameter transfer:
\* every parameter of Class that is not in kwargs and that the parent has
InputComponent(parentcomponent, Class, kwargs) ==
    LET transferred == {key \in Parameters(Class) :
                           key \notin DOMAIN kwargs /\
                           key \in DOMAIN parentcomponent}
    IN  [key \in DOMAIN kwargs \cup transferred |->
            IF key \in DOMAIN kwargs THEN kwargs[key]
            ELSE parentcomponent[key]]

\* input.Class(**input.kwargs): the parameter values of the new instance
Instantiate(Class, kwargs) ==
    [key \in Parameters(Class) |->
        IF key \in DOMAIN kwargs THEN kwargs[key] ELSE ParameterDefault(key)]

\* ------------------------------------------------------------------------
\* Slot feeds
\* ------------------------------------------------------------------------

\* input_feeds = {}
EmptyFeed == [format_id \in {} |-> [list |-> FALSE, slots |-> <<>>]]

\* the out_default slot of the InputTask created for a format
SourceSlot(format_id) ==
    [task |-> "InputTask", format_id |-> format_id, slot |-> "default"]

\* the out_<slot> slot of a task of class T
TaskSlot(T, slot) == [task |-> T, format_id |-> "", slot |-> slot]

\* input_feeds[key] = value
Bind(input_feeds, key, value) ==
    [k \in DOMAIN input_feeds \cup {key} |->
        IF k = key THEN value ELSE input_feeds[k]]

\* input_feeds['default'] = ...: the slot recorded under its own name
RecordFormatDefault(input_feeds, format_id) ==
    Bind(input_feeds, "default",
         [list |-> FALSE, slots |-> <<SourceSlot(format_id)>>])

\* input_feeds[input.format_id] = input.task(workflow).out_default
RecordFormat(input_feeds, format_id) ==
    Bind(input_feeds, format_id,
         [list |-> FALSE, slots |-> <<SourceSlot(format_id)>>])

\* the merge of one out_ slot of a returned task into the feed
MergeSlot(input_feeds, format_id, slot) ==
    IF format_id \in DOMAIN input_feeds
    THEN Bind(input_feeds, format_id,
              [list |-> TRUE,
               slots |-> Append(input_feeds[format_id].slots, slot)])
    ELSE Bind(input_feeds, format_id, [list |-> FALSE, slots |-> <<slot>>])

RECURSIVE MergeTask(_, _, _)
\* for attrname in dir(inputtask): if attrname[:4] == 'out_': ...
MergeTask(input_feeds, T, i) ==
    IF i > Len(TaskDecl(T).outs) THEN input_feeds
    ELSE MergeTask(MergeSlot(input_feeds, TaskDecl(T).outs[i],
                             TaskSlot(T, TaskDecl(T).outs[i])), T, i + 1)

RECURSIVE MergeTasks(_, _, _)
\* for inputtask in inputtasks: ...; raises TypeError on a non-Task
MergeTasks(input_feeds, inputtasks, i) ==
    IF i > Len(inputtasks) THEN [raised |-> "none", feed |-> input_feeds]
    ELSE IF ~TaskDecl(inputtasks[i]).istask
         THEN [raised |-> "TypeError", feed |-> input_feeds]
         ELSE MergeTasks(MergeTask(input_feeds, inputtasks[i], 1),
                         inputtasks, i + 1)

\* if len(input_feeds) > 1: the test for a non-empty feed off by one
GroupAcceptedAboveOne(input_feeds) == Cardinality(DOMAIN input_feeds) > 1

\* if len(input_feeds) > 0: return input_feeds
GroupAccepted(input_feeds) == Cardinality(DOMAIN input_feeds) > 0

\* ------------------------------------------------------------------------
\* WorkflowComponent.setup_input and WorkflowComponent.setup
\* ------------------------------------------------------------------------

\* deepest nesting of component resolutions the interpreter's call stack
\* holds; one more raises RecursionError
RecursionLimit == 3

\* outcomes of a call: st is "return" or "raise"; errs collects every
\* exception raised during the call, caught or not; made lists the tasks
\* created through workflow.new_task, in order
Return(feed, errs, made) ==
    [st |-> "return", exc |-> "none", feed |-> feed, tasks |-> <<>>,
     errs |-> errs, made |-> made]
ReturnTasks(tasks, errs, made) ==
    [st |-> "return", exc |-> "none", feed |-> EmptyFeed, tasks |-> tasks,
     errs |-> errs, made |-> made]
Raise(exc, errs, made) ==
    [st |-> "raise", exc |-> exc, feed |-> EmptyFeed, tasks |-> <<>>,
     errs |-> errs \cup {exc}, made |-> made]

\* outcomes of one pass through the body of the item loop
\* (tasks: the tasks whose out_ slots the pass merged into the feed)
Continue(feed, tasks, errs, made) ==
    [out |-> "continue", exc |-> "none", feed |-> feed, tasks |-> tasks,
     errs |-> errs, made |-> made]
Break(feed, errs, made) ==
    [out |-> "break", exc |-> "none", feed |-> feed, tasks |-> <<>>,
     errs |-> errs, made |-> made]
RaiseOut(exc, feed, errs, made) ==
    [out |-> "raise", exc |-> exc, feed |-> feed, tasks |-> <<>>,
     errs |-> errs \cup {exc}, made |-> made]

\* except (InvalidInput, AutoSetupError): a wider except clause
CatchesSetupErrors(exc) == exc \in {"InvalidInput", "AutoSetupError"}

\* except InvalidInput as e:
Catches(exc) == exc = "InvalidInput"

\* the test of startcomponent left out
StartMismatchNever(self, Class) == FALSE

\* if self.startcomponent and self.startcomponent != self.__class__.__name__
StartMismatch(self, Class) ==
    self.startcomponent # "" /\ self.startcomponent # Class

\* if input.valid: the input-slot restriction left out
FormatAcceptedUnrestricted(self, input) == input.valid

\* if input.valid and (not self.inputslot or self.inputslot == input.format_id)
FormatAccepted(self, input) ==
    input.valid /\ (self.inputslot = "" \/ self.inputslot = input.format_id)

\* the InputFormat branch of the item loop, on a constructed InputFormat
EvalFormat(Class, self, input, input_feeds) ==
    IF StartMismatch(self, Class) THEN Break(input_feeds, {}, <<>>)
    ELSE IF FormatAccepted(self, input)
         THEN Continue(RecordFormat(input_feeds, input.format_id), <<>>, {},
                       <<SourceSlot(input.format_id)>>)
         ELSE Break(input_feeds, {}, <<>>)

RECURSIVE AutoSetupPick(_, _, _)
\* for TaskClass in configuration: ... and the raise after the loop
AutoSetupPick(configuration, i, input_type) ==
    IF i > Len(configuration)
    THEN IF Len(configuration) = 0
         THEN Raise("UnboundLocalError", {}, <<>>)
         ELSE Raise("AutoSetupError", {}, <<>>)
    ELSE LET TaskClass == configuration[i]
         IN  IF ~TaskDecl(TaskClass).istask
             THEN Raise("AutoSetupError", {}, <<>>)
             ELSE IF input_type \in TaskDecl(TaskClass).ins
                  THEN IF Len(TaskDecl(TaskClass).outs) = 0
                       THEN Raise("AutoSetupError", {}, <<TaskSlot(TaskClass, "")>>)
                       ELSE ReturnTasks(<<TaskClass>>, {}, <<TaskSlot(TaskClass, "")>>)
                  ELSE AutoSetupPick(configuration, i + 1, input_type)

\* the items of all groups in the order accepts() constructs them
RECURSIVE Flatten(_)
Flatten(groups) ==
    IF Len(groups) = 0 THEN <<>> ELSE Head(groups) \o Flatten(Tail(groups))

\* the InputFormat object of a format entry, for this instance
FormatObject(self, env, input) ==
    InputFormat("inputfile" \in DOMAIN self, input.format_id, self.inputfile,
                input.extension, input.force, env.fs)

RECURSIVE AcceptsRaised(_, _, _, _)
\* the exception accepts() raises while constructing its InputFormats
AcceptsRaised(self, env, inputs, i) ==
    IF i > Len(inputs) THEN "none"
    ELSE IF inputs[i].kind = "InputFormat" /\
            FormatObject(self, env, inputs[i]).raised # "none"
         THEN FormatObject(self, env, inputs[i]).raised
         ELSE AcceptsRaised(self, env, inputs, i + 1)

RECURSIVE InjectedGroups(_, _)
\* the groups itertools.chain takes from accepted_components
InjectedGroups(accepted_components, i) ==
    IF i > Len(accepted_components) THEN <<>>
    ELSE << <<Bare(accepted_components[i])>> >> \o
         InjectedGroups(accepted_components, i + 1)

RECURSIVE SetupInput(_, _, _, _)
RECURSIVE Setup(_, _, _, _, _)
RECURSIVE EvalGroups(_, _, _, _, _, _, _, _)
RECURSIVE EvalItems(_, _, _, _, _, _, _, _, _)
RECURSIVE EvalItem(_, _, _, _, _, _)

\* the one value of a singleton set; { e(x) : x \in {v} } evaluates v once
\* however often e uses x
The(S) == CHOOSE x \in S : TRUE

\* the merge of the tasks setup() returned, after the try block
MergeReturned(input_feeds, tasks, errs_, made_) ==
    The({ IF m.raised # "none"
          THEN RaiseOut(m.raised, m.feed, errs_, made_)
          ELSE Continue(m.feed, tasks, errs_, made_) :
          m \in {MergeTasks(input_feeds, tasks, 1)} })

\* what the try block does with the outcome r of swf.setup_input/setup
TryResult(input_feeds, r, errs_, made_) ==
    IF Catches(r.exc)
    THEN Break(input_feeds, errs_, made_)
    ELSE RaiseOut(r.exc, input_feeds, errs_, made_)

\* the part of the item loop body after swf was constructed: the try block
\* around setup_input/setup, and the merge of the returned tasks' out_ slots
ResolveSub(swfClass, swf, env, input_feeds, depth) ==
    The({ IF r.st = "raise"
          THEN TryResult(input_feeds, r, r.errs, r.made)
          ELSE The({ IF t.st = "raise"
                     THEN TryResult(input_feeds, t, r.errs \cup t.errs,
                                    r.made \o t.made)
                     ELSE MergeReturned(input_feeds, t.tasks,
                                        r.errs \cup t.errs, r.made \o t.made) :
                     t \in {Setup(swfClass, swf, env, r.feed, depth + 1)} }) :
          r \in {SetupInput(swfClass, swf, env, depth + 1)} })

\* one pass through the body of the item loop
EvalItem(Class, self, env, input, input_feeds, depth) ==
    CASE input.kind = "InputFormat" ->
            EvalFormat(Class, self, FormatObject(self, env, input), input_feeds)
      [] input.kind = "InputComponent" ->
            ResolveSub(input.Class,
                       Instantiate(input.Class,
                                   InputComponent(self, input.Class, input.kwargs)),
                       env, input_feeds, depth)
      [] input.kind = "class" ->
            \* swf = iwf.Class(*input.args, **input.kwargs) reads args of a class
            RaiseOut("AttributeError", input_feeds, {}, <<>>)
      [] OTHER -> RaiseOut("TypeError", input_feeds, {}, <<>>)

\* for input in inputtuple: ...
EvalItems(Class, self, env, inputtuple, i, input_feeds, errs_, made_, depth) ==
    IF i > Len(inputtuple) THEN Continue(input_feeds, <<>>, errs_, made_)
    ELSE The({ IF o.out = "continue"
               THEN EvalItems(Class, self, env, inputtuple, i + 1, o.feed,
                              errs_ \cup o.errs, made_ \o o.made, depth)
               ELSE [o EXCEPT !.errs = errs_ \cup o.errs,
                              !.made = made_ \o o.made] :
               o \in {EvalItem(Class, self, env, inputtuple[i], input_feeds,
                               depth)} })

\* the last feed returned where InvalidInput should be raised
NoEntryPointReturns(errs_, made_) == Return(EmptyFeed, errs_, made_)

\* the InvalidInput raised when no group was accepted
NoEntryPoint(errs_, made_) == Raise("InvalidInput", errs_, made_)

\* for inputtuple in itertools.chain(accepts, self.accepted_components): ...
EvalGroups(Class, self, env, groups, g, errs_, made_, depth) ==
    IF g > Len(groups) THEN NoEntryPoint(errs_, made_)
    ELSE The({ IF o.out = "raise" THEN Raise(o.exc, o.errs, o.made)
               ELSE IF GroupAccepted(o.feed)
                    THEN Return(o.feed, o.errs, o.made)
                    ELSE EvalGroups(Class, self, env, groups, g + 1,
                                    o.errs, o.made, depth) :
               o \in {EvalItems(Class, self, env, groups[g], 1, EmptyFeed,
                                errs_, made_, depth)} })

\* WorkflowComponent.setup_input of an instance of a library class
SetupInput(Class, self, env, depth) ==
    IF depth > RecursionLimit THEN Raise("RecursionError", {}, <<>>)
    ELSE The({ IF raised # "none" THEN Raise(raised, {}, <<>>)
               ELSE EvalGroups(Class, self, env,
                               Accepts(Class) \o
                                   InjectedGroups(env.accepted_components, 1),
                               1, {}, <<>>, depth) :
               raised \in {AcceptsRaised(self, env, Flatten(Accepts(Class)), 1)} })

\* the autosetup branch of setup() without the test of len(input_feeds)
AutoSetupOnAnyFeed(configuration, r) ==
    IF r.st = "raise" THEN r
    ELSE The({ [t EXCEPT !.errs = r.errs \cup t.errs,
                         !.made = r.made \o t.made] :
               t \in {AutoSetupPick(configuration, 1,
                                    CHOOSE k \in DOMAIN r.feed : TRUE)} })

\* the autosetup branch of setup(), after its own call of setup_input
AutoSetupOn(configuration, r) ==
    IF r.st = "raise" THEN r
    ELSE IF Cardinality(DOMAIN r.feed) > 1
         THEN Raise("AutoSetupError", r.errs, r.made)
         ELSE The({ [t EXCEPT !.errs = r.errs \cup t.errs,
                              !.made = r.made \o t.made] :
                    t \in {AutoSetupPick(configuration, 1,
                                         CHOOSE k \in DOMAIN r.feed : TRUE)} })

\* WorkflowComponent.setup of an instance of a library class
Setup(Class, self, env, input_feeds, depth) ==
    CASE SetupDecl(Class).kind = "autosetup" ->
            The({ AutoSetupOn(SetupDecl(Class).configuration, r) :
                  r \in {SetupInput(Class, self, env, depth)} })
      [] SetupDecl(Class).kind = "setup" ->
            IF SetupDecl(Class).raises # "none"
            THEN Raise(SetupDecl(Class).raises, {}, <<>>)
            ELSE ReturnTasks(SetupDecl(Class).returns, {},
                             [i \in 1..Len(SetupDecl(Class).returns) |->
                                 TaskSlot(SetupDecl(Class).returns[i], "")])
      [] OTHER -> Raise("NotImplementedError", {}, <<>>)

\* the test workflow() makes of what setup() returned: a Task passes; a
\* sequence passes only when it is empty, since the test asks of every element
\* whether the sequence itself is a Task
ValidLastTask(tasks) ==
    \/ Len(tasks) = 0
    \/ Len(tasks) = 1 /\ TaskDecl(tasks[1]).istask

\* WorkflowComponent.workflow of an instance of a library class
Workflow(Class, self, env) ==
    The({ IF r.st = "raise" THEN r
          ELSE The({ IF t.st = "return" /\ ~ValidLastTask(t.tasks)
                     THEN Raise("ValueError", r.errs \cup t.errs,
                                r.made \o t.made)
                     ELSE [t EXCEPT !.errs = r.errs \cup t.errs,
                                    !.made = r.made \o t.made] :
                     t \in {Setup(Class, self, env, r.feed, 0)} }) :
          r \in {SetupInput(Class, self, env, 0)} })

\* ------------------------------------------------------------------------
\* State
\* ------------------------------------------------------------------------

VARIABLES
    \* format matcher: the arguments of one constructor call and its result
    fpc,          \* "new" before the call, "built" after it, "str" after __str__
    fhasparam,    \* hasattr(workflow, inputparameter)
    fpath,        \* getattr(workflow, inputparameter)
    fextensions,  \* the declared extension(s)
    fforce,       \* force
    ffs,          \* the paths that exist on the backing store
    fformat,      \* the InputFormat object (or the error raised)
    fstr,         \* the last result of __str__
    \* chain resolver: one top-level call of setup_input or workflow
    pc,           \* position of the top-level call: "start", then inside
                  \* setup_input of Main "group" (head of the group loop),
                  \* "item" (head of the item loop), "groupend" (after the
                  \* item loop), then "done" (setup_input ended) or "wfdone"
                  \* (workflow ended)
    top,          \* self.__class__.__name__ of the top-level component
    self,         \* its parameters inputfile, startcomponent, inputslot
    fs,           \* the paths that exist on the backing store
    accepted_components, \* WorkflowComponent.accepted_components
    own,          \* own acceptance groups started so far
    inj,          \* entries of accepted_components started so far
    nitems,       \* items of the current group that resolved
    input_feeds,  \* the feed of the current group
    broke,        \* the item loop of the current group was left by break
    result,       \* what the top-level call returned or raised
    \* history of the top-level call, read by the properties only
    produced,     \* format-id -> slots produced in the current group, in order
    fullgroup,    \* first group with an item whose every item resolved, or 0
    errs,         \* every exception raised so far, caught or not
    last          \* the last item evaluated and what became of it

VARIABLES
    \* parameter propagation: one component reference and what is built of it
    ppc,          \* "new", then "wrapped" (InputComponent made), then "built"
    pparent,      \* the parent component: parameter name -> value
    pClass,       \* the class the reference names
    pkind,        \* "InputComponent" (wrapped) or "class" (bare class)
    pkwargs,      \* the keyword arguments bound explicitly in the reference
    pref,         \* kwargs of the InputComponent after the transfer
    pswf          \* the sub-component instance (or the error raised)

VARIABLES
    \* a Task and the output directories it registers
    tpc,          \* "off", or "on" while the task's handlers are exercised
    posix,        \* os.rename replaces an existing empty directory
    disk,         \* path -> "absent", "empty" or "full" (a directory)
    task,         \* the attributes set on the Task instance: name -> value
    tlast,        \* the last handler run, what it raised, the disk before it
    fails,        \* on_failure calls in a row up to now
    after1        \* the disk after the first of these calls

VARIABLES
    \* setup() of an autosetup component, on what its setup_input came to
    apc,            \* "new" before the call, "done" after it
    aresolved,      \* what setup_input returned or raised
    aconfiguration, \* what autosetup() returned, as a sequence
    aresult         \* what setup() returned or raised

VARIABLES
    \* the component registry and the fan-out wrappers
    gpc,          \* "load" while components register, "called" after a
                  \* wrapper's workflow() ran
    COMPONENTS,   \* the registry: a list of classes
    gcall,        \* the wrapper instance: its parameters as passed
    heap,         \* the mutable mappings in memory, by reference (index)
    gtasks,       \* what workflow() returned or raised
    glast         \* the last operation, and the heap before it

fvars == <<fpc, fhasparam, fpath, fextensions, fforce, ffs, fformat, fstr>>

avars == <<apc, aresolved, aconfiguration, aresult>>

gvars == <<gpc, COMPONENTS, gcall, heap, gtasks, glast>>

tvars == <<tpc, posix, disk, task, tlast, fails, after1>>

pvars == <<ppc, pparent, pClass, pkind, pkwargs, pref, pswf>>

\* the state outside the format matcher and the chain resolver
xvars == <<pvars, tvars, avars, gvars>>

rvars == <<pc, top, self, fs, accepted_components, own, inj, nitems, input_feeds,
           broke, result, produced, fullgroup, errs, last>>

vars == <<fpc, fhasparam, fpath, fextensions, fforce, ffs, fformat, fstr,
          pc, top, self, fs, accepted_components, own, inj, nitems, input_feeds,
          broke, result, produced, fullgroup, errs, last,
          ppc, pparent, pClass, pkind, pkwargs, pref, pswf,
          tpc, posix, disk, task, tlast, fails, after1,
          apc, aresolved, aconfiguration, aresult,
          gpc, COMPONENTS, gcall, heap, gtasks, glast>>

\* no call has returned or raised yet
NoResult ==
    [st |-> "none", exc |-> "none", feed |-> EmptyFeed, tasks |-> <<>>,
     errs |-> {}, made |-> <<>>]

\* no item was evaluated yet
NoItem ==
    [kind |-> "none", format_id |-> "", valid |-> FALSE, out |-> "none",
     errs |-> {}]

\* the resolver at rest (while the format matcher is exercised)
ResolverIdle ==
    /\ pc = "off"
    /\ top = ""
    /\ self = [inputfile |-> <<>>, startcomponent |-> "", inputslot |-> ""]
    /\ fs = {}
    /\ accepted_components = <<>>
    /\ own = 0 /\ inj = 0 /\ nitems = 0
    /\ input_feeds = EmptyFeed
    /\ broke = FALSE
    /\ result = NoResult
    /\ produced = EmptyFeed
    /\ fullgroup = 0
    /\ errs = {}
    /\ last = NoItem

\* the format matcher at rest (while the resolver is exercised)
MatcherIdle ==
    /\ fpc = "off"
    /\ fhasparam = FALSE
    /\ fpath = <<>>
    /\ fextensions = <<>>
    /\ fforce = FALSE
    /\ ffs = {}
    /\ fformat = NewInputFormat("fmt")
    /\ fstr = <<>>

\* no sub-component instance was constructed
NoInstance == [raised |-> "none", made |-> FALSE, params |-> NoKwargs]

\* parameter propagation at rest
ParamsIdle ==
    /\ ppc = "off"
    /\ pparent = NoKwargs
    /\ pClass = ""
    /\ pkind = ""
    /\ pkwargs = NoKwargs
    /\ pref = NoKwargs
    /\ pswf = NoInstance

\* a Task instance on which no attribute was set
NewTask == [a \in {} |-> <<>>]

\* no directory in sight
NoDisk == [q \in {} |-> "absent"]

\* no handler of the task has run
NoHandler ==
    [op |-> "none", dir |-> <<>>, raised |-> "none", before |-> NoDisk]

\* the task's handlers at rest
TaskIdle ==
    /\ tpc = "off"
    /\ posix = TRUE
    /\ disk = NoDisk
    /\ task = NewTask
    /\ tlast = NoHandler
    /\ fails = 0
    /\ after1 = NoDisk

\* setup() of an autosetup component at rest
AutoSetupIdle ==
    /\ apc = "off"
    /\ aresolved = NoResult
    /\ aconfiguration = <<>>
    /\ aresult = NoResult

\* no wrapper was called
NoCall ==
    [wrapper |-> "", component |-> "", form |-> "", inputfiles |-> <<>>,
     passparameters |-> [kind |-> "", value |-> NoKwargs, ref |-> 0],
     cache |-> FALSE]

\* workflow() of a wrapper has neither returned nor raised
NoTasks ==
    [raised |-> "none", returned |-> FALSE, list |-> <<>>, bundle |-> 0]

\* no operation on the registry or a wrapper yet
NoOperation == [op |-> "none", i |-> 0, sets |-> 0, before |-> <<>>]

\* the registry and the fan-out wrappers at rest
FanOutIdle ==
    /\ gpc = "off"
    /\ COMPONENTS = <<>>
    /\ gcall = NoCall
    /\ heap = <<>>
    /\ gtasks = NoTasks
    /\ glast = NoOperation

\* everything outside the format matcher and the chain resolver at rest
ExtrasIdle == ParamsIdle /\ TaskIdle /\ AutoSetupIdle /\ FanOutIdle

\* the file a descriptor's first extension is forced onto
ForcedTarget(path, extensions) ==
    LET e == StripDot(extensions[1])
    IN  DropLast(path, Len(e) + 1) \o <<".">> \o e

\* the backing stores drawn for a call: nothing exists, only the input path
\* exists, or only the file that forcing the first extension names
StoreChoices(path, extensions) ==
    {{}, {path}} \cup
    (IF Len(extensions) > 0 THEN {{ForcedTarget(path, extensions)}} ELSE {})

InitFormat ==
    /\ fpc = "new"
    /\ fhasparam \in BOOLEAN
    /\ fpath \in Paths
    /\ fextensions \in ExtLists
    /\ fforce \in BOOLEAN
    /\ ffs \in StoreChoices(fpath, fextensions)
    /\ fformat = NewInputFormat("fmt")
    /\ fstr = <<>>
    /\ ResolverIdle
    /\ ExtrasIdle

\* InputFormat.__init__
Construct ==
    /\ fpc = "new"
    /\ fformat' = InputFormat(fhasparam, "fmt", fpath, fextensions, fforce, ffs)
    /\ fpc' = "built"
    /\ UNCHANGED <<fhasparam, fpath, fextensions, fforce, ffs, fstr>>
    /\ UNCHANGED rvars
    /\ UNCHANGED xvars

\* InputFormat.__str__ on a constructed object
Str ==
    /\ fpc = "built"
    /\ fformat.raised = "none"
    /\ fstr' = InputFormatStr(fformat)
    /\ fpc' = "str"
    /\ UNCHANGED <<fhasparam, fpath, fextensions, fforce, ffs, fformat>>
    /\ UNCHANGED rvars
    /\ UNCHANGED xvars

NextFormat == Construct \/ Str

SpecFormat == InitFormat /\ [][NextFormat]_vars

\* ------------------------------------------------------------------------
\* The chain resolver, one step of setup_input at a time.  The top-level
\* component Main declares any acceptance groups: what accepts() returned is
\* disclosed item by item as the loops reach it.  The components it refers
\* to are those of the library.
\* ------------------------------------------------------------------------

\* most own acceptance groups of Main
MaxGroups == 2
\* most items of one group of Main that resolve
MaxItems == 3
\* most entries of accepted_components
MaxAccepted == 1

DT == <<"d", ".", "t">>
DC == <<"d", ".", "c">>

InputFiles == {DT, DC}
StartChoices == {"", "Main", "Tokenize", "Convert"}
SlotChoices == {"", "txt", "doc"}
AcceptChoices == {"Tokenize"}

\* the InputFormat entries Main may declare
FormatChoices ==
    {Fmt(format_id, <<e>>, FALSE) :
        format_id \in {"txt", "doc", "tok"}, e \in {ExtT, ExtC}}

\* the backing stores drawn for a call
FsChoices(inputfile) == {{}, {inputfile}, InputFiles}

Env == [fs |-> fs, accepted_components |-> accepted_components]

Init ==
    /\ MatcherIdle
    /\ ExtrasIdle
    /\ pc = "start"
    /\ top = "Main"
    /\ self \in [inputfile : InputFiles, startcomponent : StartChoices,
                 inputslot : SlotChoices]
    /\ fs \in FsChoices(self.inputfile)
    /\ accepted_components = <<>>
    /\ own = 0 /\ inj = 0 /\ nitems = 0
    /\ input_feeds = EmptyFeed
    /\ broke = FALSE
    /\ result = NoResult
    /\ produced = EmptyFeed
    /\ fullgroup = 0
    /\ errs = {}
    /\ last = NoItem

\* Main.accept(ChildClass), before any resolution: cls.accepted_components
\* is the list WorkflowComponent defines, which no subclass binds anew
Accept(ChildClass) ==
    /\ pc = "start"
    /\ \/ Len(accepted_components) < MaxAccepted
       \/ \E i \in 1..Len(accepted_components) : accepted_components[i] = ChildClass
    /\ accepted_components' =
          IF \E i \in 1..Len(accepted_components) : accepted_components[i] = ChildClass
          THEN accepted_components
          ELSE Append(accepted_components, ChildClass)
    /\ UNCHANGED <<pc, top, self, fs, own, inj, nitems, input_feeds, broke,
                   result, produced, fullgroup, errs, last>>
    /\ UNCHANGED fvars
    /\ UNCHANGED xvars

\* setup_input of Main: accepts() raises while constructing an InputFormat
AcceptsRaises ==
    /\ pc = "start"
    /\ \E d \in FormatChoices :
          /\ FormatObject(self, Env, d).raised # "none"
          /\ result' = Raise(FormatObject(self, Env, d).raised, {}, <<>>)
          /\ errs' = {FormatObject(self, Env, d).raised}
    /\ pc' = "done"
    /\ UNCHANGED <<top, self, fs, accepted_components, own, inj, nitems,
                   input_feeds, broke, produced, fullgroup, last>>
    /\ UNCHANGED fvars
    /\ UNCHANGED xvars

\* setup_input of Main: accepts() returns
AcceptsReturns ==
    /\ pc = "start"
    /\ pc' = "group"
    /\ UNCHANGED <<top, self, fs, accepted_components, own, inj, nitems,
                   input_feeds, broke, result, produced, fullgroup, errs, last>>
    /\ UNCHANGED fvars
    /\ UNCHANGED xvars

\* the group loop takes the next of Main's own groups: input_feeds = {}
NextOwnGroup ==
    /\ pc = "group"
    /\ inj = 0
    /\ own < MaxGroups
    /\ own' = own + 1
    /\ nitems' = 0
    /\ input_feeds' = EmptyFeed
    /\ produced' = EmptyFeed
    /\ broke' = FALSE
    /\ pc' = "item"
    /\ UNCHANGED <<top, self, fs, accepted_components, inj, result, fullgroup,
                   errs, last>>
    /\ UNCHANGED fvars
    /\ UNCHANGED xvars

\* the group loop takes the next entry of accepted_components
NextInjectedGroup ==
    /\ pc = "group"
    /\ inj < Len(accepted_components)
    /\ inj' = inj + 1
    /\ nitems' = 0
    /\ input_feeds' = EmptyFeed
    /\ produced' = EmptyFeed
    /\ broke' = FALSE
    /\ pc' = "item"
    /\ UNCHANGED <<top, self, fs, accepted_components, own, result, fullgroup,
                   errs, last>>
    /\ UNCHANGED fvars
    /\ UNCHANGED xvars

\* the group loop is exhausted: raise InvalidInput
Exhausted ==
    /\ pc = "group"
    /\ inj = Len(accepted_components)
    /\ result' = NoEntryPoint(errs, <<>>)
    /\ errs' = errs \cup {"InvalidInput"}
    /\ pc' = "done"
    /\ UNCHANGED <<top, self, fs, accepted_components, own, inj, nitems,
                   input_feeds, broke, produced, fullgroup, last>>
    /\ UNCHANGED fvars
    /\ UNCHANGED xvars

RECURSIVE TaskProductions(_, _, _)
\* the <<format_id, slot>> pairs the out_ slots of a sequence of tasks yield
TaskProductions(tasks, i, j) ==
    IF i > Len(tasks) THEN <<>>
    ELSE IF j > Len(TaskDecl(tasks[i]).outs) THEN TaskProductions(tasks, i + 1, 1)
         ELSE << <<TaskDecl(tasks[i]).outs[j],
                   TaskSlot(tasks[i], TaskDecl(tasks[i]).outs[j])>> >> \o
              TaskProductions(tasks, i, j + 1)

\* the <<format_id, slot>> pairs an item that resolved yields
Productions(input, o) ==
    IF input.kind = "InputFormat"
    THEN << <<input.format_id, SourceSlot(input.format_id)>> >>
    ELSE TaskProductions(o.tasks, 1, 1)

RECURSIVE Note(_, _, _)
\* the history of productions extended by a sequence of pairs
Note(p, pairs, i) ==
    IF i > Len(pairs) THEN p
    ELSE Note([k \in DOMAIN p \cup {pairs[i][1]} |->
                  IF k = pairs[i][1]
                  THEN IF k \in DOMAIN p THEN Append(p[k], pairs[i][2])
                       ELSE <<pairs[i][2]>>
                  ELSE p[k]],
              pairs, i + 1)

\* one pass through the body of the item loop of Main, for the item input
ItemStep(input) ==
    \E o \in {EvalItem(top, self, Env, input, input_feeds, 0)} :
        /\ last' = [kind |-> input.kind, format_id |-> input.format_id,
                    valid |-> IF input.kind = "InputFormat"
                              THEN FormatObject(self, Env, input).valid
                              ELSE FALSE,
                    out |-> o.out, errs |-> o.errs]
        /\ errs' = errs \cup o.errs
        /\ CASE o.out = "continue" ->
                  /\ input_feeds' = o.feed
                  /\ nitems' = nitems + 1
                  /\ produced' = Note(produced, Productions(input, o), 1)
                  /\ UNCHANGED <<pc, broke, result>>
             [] o.out = "break" ->
                  /\ broke' = TRUE
                  /\ pc' = "groupend"
                  /\ UNCHANGED <<input_feeds, nitems, produced, result>>
             [] OTHER ->
                  /\ result' = Raise(o.exc, errs \cup o.errs, <<>>)
                  /\ pc' = "done"
                  /\ UNCHANGED <<input_feeds, nitems, produced, broke>>
        /\ UNCHANGED <<top, self, fs, accepted_components, own, inj, fullgroup>>
        /\ UNCHANGED fvars
        /\ UNCHANGED xvars

\* the next item of an own group is an InputFormat (that accepts() built)
ItemFormat ==
    /\ pc = "item" /\ inj = 0 /\ nitems < MaxItems
    /\ \E d \in FormatChoices :
          /\ FormatObject(self, Env, d).raised = "none"
          /\ ItemStep(d)

\* the next item of an own group is an InputComponent
ItemComponent ==
    /\ pc = "item" /\ inj = 0 /\ nitems < MaxItems
    /\ \E Class \in Library : ItemStep(Comp(Class, NoKwargs))

\* the next item of an own group is a bare component class
ItemClass ==
    /\ pc = "item" /\ inj = 0 /\ nitems < MaxItems
    /\ \E Class \in AcceptChoices : ItemStep(Bare(Class))

\* the next item of an own group is neither
ItemOther ==
    /\ pc = "item" /\ inj = 0 /\ nitems < MaxItems
    /\ ItemStep(Other)

\* the only item of an injected group: the entry of accepted_components
ItemInjected ==
    /\ pc = "item" /\ inj > 0 /\ nitems = 0
    /\ ItemStep(Bare(accepted_components[inj]))

\* the item loop ends without break
EndOfGroup ==
    /\ pc = "item"
    /\ inj = 0 \/ nitems = 1
    /\ pc' = "groupend"
    /\ fullgroup' = IF fullgroup = 0 /\ nitems > 0 THEN own + inj ELSE fullgroup
    /\ UNCHANGED <<top, self, fs, accepted_components, own, inj, nitems,
                   input_feeds, broke, result, produced, errs, last>>
    /\ UNCHANGED fvars
    /\ UNCHANGED xvars

\* after the item loop: if len(input_feeds) > 0: return input_feeds
AcceptGroup ==
    /\ pc = "groupend"
    /\ GroupAccepted(input_feeds)
    /\ result' = Return(input_feeds, errs, <<>>)
    /\ pc' = "done"
    /\ UNCHANGED <<top, self, fs, accepted_components, own, inj, nitems,
                   input_feeds, broke, produced, fullgroup, errs, last>>
    /\ UNCHANGED fvars
    /\ UNCHANGED xvars

\* after the item loop: the feed is empty, on to the next group
RejectGroup ==
    /\ pc = "groupend"
    /\ ~GroupAccepted(input_feeds)
    /\ pc' = "group"
    /\ UNCHANGED <<top, self, fs, accepted_components, own, inj, nitems,
                   input_feeds, broke, result, produced, fullgroup, errs, last>>
    /\ UNCHANGED fvars
    /\ UNCHANGED xvars

\* setup_input() of a library component as the top-level component
SetupInputLibrary(Class) ==
    /\ pc = "start"
    /\ top' = Class
    /\ \E r \in {SetupInput(Class, self, Env, 0)} :
          /\ result' = r
          /\ errs' = r.errs
    /\ pc' = "done"
    /\ UNCHANGED <<self, fs, accepted_components, own, inj, nitems,
                   input_feeds, broke, produced, fullgroup, last>>
    /\ UNCHANGED fvars
    /\ UNCHANGED xvars

\* workflow() of a library component as the top-level component
WorkflowLibrary(Class) ==
    /\ pc = "start"
    /\ top' = Class
    /\ \E r \in {Workflow(Class, self, Env)} :
          /\ result' = r
          /\ errs' = r.errs
    /\ pc' = "wfdone"
    /\ UNCHANGED <<self, fs, accepted_components, own, inj, nitems,
                   input_feeds, broke, produced, fullgroup, last>>
    /\ UNCHANGED fvars
    /\ UNCHANGED xvars

Next ==
    \/ \E ChildClass \in AcceptChoices : Accept(ChildClass)
    \/ AcceptsRaises
    \/ AcceptsReturns
    \/ NextOwnGroup
    \/ NextInjectedGroup
    \/ Exhausted
    \/ ItemFormat
    \/ ItemComponent
    \/ ItemClass
    \/ ItemOther
    \/ ItemInjected
    \/ EndOfGroup
    \/ AcceptGroup
    \/ RejectGroup
    \/ \E Class \in Library : SetupInputLibrary(Class)
    \/ \E Class \in Library : WorkflowLibrary(Class)

Spec == Init /\ [][Next]_vars

\* ------------------------------------------------------------------------
\* Parameter propagation: a parent component builds the sub-component one
\* reference names
\* ------------------------------------------------------------------------

\* the classes referred to
ParamClasses == {"Core", "Tokenize", "Lang", "LangSkip"}

\* every parameter name in play
ParamNames == {"inputfile", "startcomponent", "inputslot", "language", "skip"}

\* the values a parent holds, and the value a reference binds explicitly
ParentValues == {"p1", "p2"}
ExplicitValue == "k"

\* the mappings from any subset of Names into Values
Bindings(Names, Values) == UNION {[N -> Values] : N \in SUBSET Names}

\* iwf = InputComponent(self, input), made by setup_input for a bare class
WrapBare(parentcomponent, Class) ==
    InputComponent(parentcomponent, Class, NoKwargs)

\* input.Class(*input.args, **input.kwargs) on an InputComponent: luigi
\* refuses an instance whose parameter without default is unbound
NewComponent(Class, kwargs) ==
    IF \E key \in Parameters(Class) : Required(key) /\ key \notin DOMAIN kwargs
    THEN [raised |-> "MissingParameterException", made |-> FALSE,
          params |-> NoKwargs]
    ELSE [raised |-> "none", made |-> TRUE,
          params |-> Instantiate(Class, kwargs)]

\* iwf.Class(*input.args, **input.kwargs) where input is the bare class: the
\* class has no attribute args
NewFromBare(Class, kwargs) ==
    [raised |-> "AttributeError", made |-> FALSE, params |-> NoKwargs]

InitParams ==
    /\ ppc = "new"
    /\ pparent \in {b \in Bindings(ParamNames, ParentValues) :
                       {"startcomponent", "inputslot"} \subseteq DOMAIN b}
    /\ pClass \in ParamClasses
    /\ pkind \in {"InputComponent", "class"}
    /\ pkwargs \in Bindings(Parameters(pClass), {ExplicitValue})
    /\ pkind = "class" => pkwargs = NoKwargs
    /\ pref = NoKwargs
    /\ pswf = NoInstance
    /\ MatcherIdle
    /\ ResolverIdle
    /\ TaskIdle
    /\ AutoSetupIdle
    /\ FanOutIdle

\* accepts() of the parent builds InputComponent(self, Class, **kwargs)
WrapReference ==
    /\ ppc = "new" /\ pkind = "InputComponent"
    /\ pref' = InputComponent(pparent, pClass, pkwargs)
    /\ ppc' = "wrapped"
    /\ UNCHANGED <<pparent, pClass, pkind, pkwargs, pswf>>
    /\ UNCHANGED <<fvars, rvars, tvars, avars, gvars>>

\* setup_input of the parent constructs the sub-component of a wrapped
\* reference
ConstructWrapped ==
    /\ ppc = "wrapped"
    /\ pswf' = NewComponent(pClass, pref)
    /\ ppc' = "built"
    /\ UNCHANGED <<pparent, pClass, pkind, pkwargs, pref>>
    /\ UNCHANGED <<fvars, rvars, tvars, avars, gvars>>

\* setup_input of the parent wraps a bare class and constructs the
\* sub-component
ConstructBare ==
    /\ ppc = "new" /\ pkind = "class"
    /\ pref' = WrapBare(pparent, pClass)
    /\ pswf' = NewFromBare(pClass, WrapBare(pparent, pClass))
    /\ ppc' = "built"
    /\ UNCHANGED <<pparent, pClass, pkind, pkwargs>>
    /\ UNCHANGED <<fvars, rvars, tvars, avars, gvars>>

NextParams == WrapReference \/ ConstructWrapped \/ ConstructBare

SpecParams == InitParams /\ [][NextParams]_vars

\* ------------------------------------------------------------------------
\* setup() of an autosetup component, for every feed its setup_input may
\* return and every configuration autosetup() may return
\* ------------------------------------------------------------------------

\* most candidates in a configuration
MaxCandidates == 2

\* the format-ids a feed may hold
FeedIds == {"txt", "doc", "tok"}

\* the feeds setup_input may return: never empty, a source slot per format-id
ResolvedFeeds ==
    {[format_id \in ids |->
         [list |-> FALSE, slots |-> <<SourceSlot(format_id)>>]] :
        ids \in (SUBSET FeedIds) \ {{}}}

InitAutoSetup ==
    /\ apc = "new"
    /\ aresolved \in {Return(feed, {}, <<>>) : feed \in ResolvedFeeds}
                      \cup {Raise("InvalidInput", {}, <<>>)}
    /\ aconfiguration \in SeqsUpTo(TaskClasses, MaxCandidates)
    /\ aresult = NoResult
    /\ MatcherIdle
    /\ ResolverIdle
    /\ ParamsIdle
    /\ TaskIdle
    /\ FanOutIdle

\* WorkflowComponent.setup of a component that defines autosetup()
SetupAuto ==
    /\ apc = "new"
    /\ aresult' = AutoSetupOn(aconfiguration, aresolved)
    /\ apc' = "done"
    /\ UNCHANGED <<aresolved, aconfiguration>>
    /\ UNCHANGED <<fvars, rvars, pvars, tvars, gvars>>

NextAutoSetup == SetupAuto

SpecAutoSetup == InitAutoSetup /\ [][NextAutoSetup]_vars

\* ------------------------------------------------------------------------
\* Task: the output directories a task registers, and what on_failure and
\* on_success do with them.  A path is a sequence of name parts; a directory
\* is absent, empty, or holds files ("full").
\* ------------------------------------------------------------------------

\* most entries of a task's list of output directories
MaxDirs == 2
\* most on_failure calls in a row
MaxFailCalls == 3

\* the directories tasks register
OutputDirs == {<<"D">>, <<"E">>}

\* d + '.failed'
Failed(d) == Append(d, ".failed")

\* the paths of the disk
DiskPaths ==
    OutputDirs \cup {Failed(d) : d \in OutputDirs}
               \cup {Failed(Failed(d)) : d \in OutputDirs}

\* os.path.exists(q)
DirExists(dsk, q) == dsk[q] # "absent"

\* os.rename(src, dst) of a directory: onto an absent path it moves; onto an
\* existing empty directory it replaces it where the platform does so; else
\* it raises OSError
Rename(dsk, src, dst, px) ==
    IF dsk[src] = "absent"
    THEN [raised |-> "FileNotFoundError", disk |-> dsk]
    ELSE IF dsk[dst] = "absent" \/ (px /\ dsk[dst] = "empty")
         THEN [raised |-> "none",
               disk |-> [dsk EXCEPT ![dst] = dsk[src], ![src] = "absent"]]
         ELSE [raised |-> "OSError", disk |-> dsk]

\* os.makedirs(d)
Makedirs(dsk, d) == [dsk EXCEPT ![d] = "empty"]

\* the name-mangled attribute self.__output_dir of Task
OutputDirAttr == "_Task__output_dir"
\* the name-mangled attribute self.__output_dirs of Task
OutputDirsAttr == "_Task__output_dirs"

\* setup_output_dir without the elif: the directory is kept or made
PrepareDirAnew(dsk, d, px) ==
    IF DirExists(dsk, d) THEN dsk ELSE Makedirs(dsk, d)

\* setup_output_dir: the directory is kept, or renamed back, or made
PrepareDir(dsk, d, px) ==
    IF DirExists(dsk, d) THEN dsk
    ELSE IF DirExists(dsk, Failed(d))
         THEN Rename(dsk, Failed(d), d, px).disk
         ELSE Makedirs(dsk, d)

\* setup_output_dir: try: self.__output_dir.append(d)
\* except AttributeError: self.__output_dir = [d]
RegisterDir(tsk, d) ==
    IF OutputDirAttr \in DOMAIN tsk
    THEN [tsk EXCEPT ![OutputDirAttr] = Append(@, d)]
    ELSE [a \in DOMAIN tsk \cup {OutputDirAttr} |->
             IF a = OutputDirAttr THEN <<d>> ELSE tsk[a]]

\* on_failure renames d or, when d is gone, d + '.failed' once more
MarkFailedAgain(dsk, d, px) ==
    IF DirExists(dsk, d) THEN Rename(dsk, d, Failed(d), px)
    ELSE IF DirExists(dsk, Failed(d))
         THEN Rename(dsk, Failed(d), Failed(Failed(d)), px)
         ELSE [raised |-> "none", disk |-> dsk]

\* on_failure: if os.path.exists(d): os.rename(d, d + '.failed')
MarkFailed(dsk, d, px) ==
    IF DirExists(dsk, d) THEN Rename(dsk, d, Failed(d), px)
    ELSE [raised |-> "none", disk |-> dsk]

RECURSIVE MarkAllFailed(_, _, _, _)
\* on_failure: for d in self.__output_dir: ...
MarkAllFailed(dsk, dirs, i, px) ==
    IF i > Len(dirs) THEN [raised |-> "none", disk |-> dsk]
    ELSE The({ IF r.raised # "none" THEN r
               ELSE MarkAllFailed(r.disk, dirs, i + 1, px) :
               r \in {MarkFailed(dsk, dirs[i], px)} })

\* Task.on_failure: AttributeError (the attribute was never set) is passed
\* over, any other exception leaves the handler
OnFailureOutcome(tsk, dsk, px) ==
    IF OutputDirAttr \notin DOMAIN tsk THEN [raised |-> "none", disk |-> dsk]
    ELSE IF Len(tsk[OutputDirAttr]) = 0 THEN [raised |-> "none", disk |-> dsk]
    ELSE MarkAllFailed(dsk, tsk[OutputDirAttr], 1, px)

RECURSIVE CheckOutputs(_, _, _, _, _)
\* on_success: for d in self.__output_dirs: if os.path.exists(self.__output_dir)
\* (a list, which os.path.exists refuses with TypeError)
CheckOutputs(tsk, dsk, dirs, i, px) ==
    IF i > Len(dirs) THEN [raised |-> "none", disk |-> dsk]
    ELSE [raised |-> "TypeError", disk |-> dsk]

\* Task.on_success: AttributeError is passed over; self.__output_dirs is an
\* attribute nothing sets
OnSuccessOutcome(tsk, dsk, px) ==
    IF OutputDirAttr \notin DOMAIN tsk THEN [raised |-> "none", disk |-> dsk]
    ELSE IF Len(tsk[OutputDirAttr]) = 0 THEN [raised |-> "none", disk |-> dsk]
    ELSE IF OutputDirsAttr \notin DOMAIN tsk
         THEN [raised |-> "none", disk |-> dsk]
         ELSE CheckOutputs(tsk, dsk, tsk[OutputDirsAttr], 1, px)

\* the directories the task has registered
Registered(tsk) ==
    IF OutputDirAttr \in DOMAIN tsk
    THEN {tsk[OutputDirAttr][i] : i \in 1..Len(tsk[OutputDirAttr])}
    ELSE {}

InitTask ==
    /\ tpc = "on"
    /\ posix \in BOOLEAN
    /\ disk \in {dsk \in [DiskPaths -> {"absent", "empty", "full"}] :
                    \A d \in OutputDirs : dsk[Failed(Failed(d))] = "absent"}
    /\ task = NewTask
    /\ tlast = NoHandler
    /\ fails = 0
    /\ after1 = disk
    /\ MatcherIdle
    /\ ResolverIdle
    /\ ParamsIdle
    /\ AutoSetupIdle
    /\ FanOutIdle

\* Task.setup_output_dir(d)
SetupOutputDir(d) ==
    /\ tpc = "on"
    /\ Len(IF OutputDirAttr \in DOMAIN task THEN task[OutputDirAttr] ELSE <<>>)
          < MaxDirs
    /\ disk' = PrepareDir(disk, d, posix)
    /\ task' = RegisterDir(task, d)
    /\ tlast' = [op |-> "setup_output_dir", dir |-> d, raised |-> "none",
                 before |-> disk]
    /\ fails' = 0
    /\ UNCHANGED <<tpc, posix, after1>>
    /\ UNCHANGED <<fvars, rvars, pvars, avars, gvars>>

\* the task's run() writes a file into a directory it registered
WriteOutput(d) ==
    /\ tpc = "on"
    /\ d \in Registered(task)
    /\ DirExists(disk, d)
    /\ disk' = [disk EXCEPT ![d] = "full"]
    /\ tlast' = [op |-> "run", dir |-> d, raised |-> "none", before |-> disk]
    /\ fails' = 0
    /\ UNCHANGED <<tpc, posix, task, after1>>
    /\ UNCHANGED <<fvars, rvars, pvars, avars, gvars>>

\* Task.on_failure(exception)
OnFailure ==
    /\ tpc = "on"
    /\ fails < MaxFailCalls
    /\ \E o \in {OnFailureOutcome(task, disk, posix)} :
          /\ disk' = o.disk
          /\ tlast' = [op |-> "on_failure", dir |-> <<>>, raised |-> o.raised,
                       before |-> disk]
          /\ after1' = IF fails = 0 THEN o.disk ELSE after1
    /\ fails' = fails + 1
    /\ UNCHANGED <<tpc, posix, task>>
    /\ UNCHANGED <<fvars, rvars, pvars, avars, gvars>>

\* Task.on_success()
OnSuccess ==
    /\ tpc = "on"
    /\ \E o \in {OnSuccessOutcome(task, disk, posix)} :
          /\ disk' = o.disk
          /\ tlast' = [op |-> "on_success", dir |-> <<>>, raised |-> o.raised,
                       before |-> disk]
    /\ fails' = 0
    /\ UNCHANGED <<tpc, posix, task, after1>>
    /\ UNCHANGED <<fvars, rvars, pvars, avars, gvars>>

\* the next attempt runs on a new Task instance
NextAttempt ==
    /\ tpc = "on"
    /\ task # NewTask
    /\ task' = NewTask
    /\ tlast' = NoHandler
    /\ fails' = 0
    /\ UNCHANGED <<tpc, posix, disk, after1>>
    /\ UNCHANGED <<fvars, rvars, pvars, avars, gvars>>

NextTask ==
    \/ \E d \in OutputDirs : SetupOutputDir(d)
    \/ \E d \in OutputDirs : WriteOutput(d)
    \/ OnFailure
    \/ OnSuccess
    \/ NextAttempt

SpecTask == InitTask /\ [][NextTask]_vars

\* ------------------------------------------------------------------------
\* The component registry and the fan-out wrappers Parallel and
\* ParallelFromDir.  A class is the module that defines it and its name; a
\* path is a sequence of characters; mappings live on a heap and are held by
\* reference, so that sharing one between two holders shows.
\* ------------------------------------------------------------------------

\* most entries of a pre-split list of input paths
MaxFiles == 2
\* longest comma-delimited string of input paths
MaxListLen == 3
\* most parameter bindings made on instances after a fan-out
MaxSets == 1

\* the component classes that may register
RegClasses ==
    {[module |-> "a", name |-> "Tok"], [module |-> "b", name |-> "Tok"],
     [module |-> "a", name |-> "Conv"]}

\* the component names a wrapper may be given
ComponentNames == {"Tok", "Conv"}

\* input paths, pre-split or comma-delimited, and the files of a directory
FilePaths == {<<"a">>, <<"b">>}
InputLists == SeqsUpTo(FilePaths, MaxFiles)
InputStrings == SeqsUpTo({"a", ","}, MaxListLen)
DirFiles == {<<"a">>, <<"b">>, <<"c">>}

\* the parameter bundles a wrapper may be given
BundleChoices == Bindings({"language", "inputfile"}, {"nl"})

\* if Class not in COMPONENTS: COMPONENTS.append(Class)
Register(components, Class) ==
    IF \E i \in 1..Len(components) : components[i] = Class
    THEN components
    ELSE Append(components, Class)

RECURSIVE GetComponentClass(_, _, _)
\* getcomponentclass(classname): the first class of that name, or Exception
GetComponentClass(components, classname, i) ==
    IF i > Len(components)
    THEN [raised |-> "Exception", Class |-> [module |-> "", name |-> ""]]
    ELSE IF components[i].name = classname
         THEN [raised |-> "none", Class |-> components[i]]
         ELSE GetComponentClass(components, classname, i + 1)

RECURSIVE SplitFrom(_, _, _)
\* str.split(','), from position i with the piece cur begun
SplitFrom(str, i, cur) ==
    IF i > Len(str) THEN <<cur>>
    ELSE IF str[i] = "," THEN <<cur>> \o SplitFrom(str, i + 1, <<>>)
         ELSE SplitFrom(str, i + 1, Append(cur, str[i]))

\* self.inputfiles.split(',')
Split(str) == SplitFrom(str, 1, <<>>)

\* the conversion of self.passparameters at the head of workflow(): a str is
\* decoded, a dict (a PassParameters too) is copied into a new
\* PassParameters, anything else is refused
ConvertBundle(hp, pp) ==
    CASE pp.kind = "str" ->
            [raised |-> "none", heap |-> Append(hp, pp.value),
             ref |-> Len(hp) + 1]
      [] pp.kind = "badstr" ->
            [raised |-> "JSONDecodeError", heap |-> hp, ref |-> 0]
      [] pp.kind \in {"dict", "PassParameters"} ->
            [raised |-> "none", heap |-> Append(hp, hp[pp.ref]),
             ref |-> Len(hp) + 1]
      [] OTHER -> [raised |-> "TypeError", heap |-> hp, ref |-> 0]

\* the keyword arguments inputfile=inputfile, **self.passparameters
Kwargs(bundle, inputfile) ==
    [key \in DOMAIN bundle \cup {"inputfile"} |->
        IF key = "inputfile" THEN inputfile ELSE bundle[key]]

\* the i-th instance made keeps its parameters where the one before it does
InstanceRefReused(hp, i) == IF i = 1 THEN Len(hp) + 1 ELSE Len(hp)

\* the i-th instance made keeps its parameters in a mapping of its own
InstanceRef(hp, i) == Len(hp) + 1

\* the heap with a mapping put at ref
Store(hp, ref, mapping) ==
    IF ref <= Len(hp) THEN [hp EXCEPT ![ref] = mapping]
    ELSE Append(hp, mapping)

\* the instances already made with these keyword arguments
MadeBefore(hp, list, kwargs) ==
    {list[k].ref : k \in {n \in 1..Len(list) : hp[list[n].ref] = kwargs}}

\* where the instance new_task returns for the i-th path keeps its
\* parameters: the task library, which is not part of the source, may hand
\* back the instance it made before for the same class and keyword
\* arguments (cache) or make a new one
NewTaskRef(hp, list, kwargs, i, cache) ==
    IF cache /\ MadeBefore(hp, list, kwargs) # {}
    THEN CHOOSE ref \in MadeBefore(hp, list, kwargs) : TRUE
    ELSE InstanceRef(hp, i)

RECURSIVE NewTasks(_, _, _, _, _, _, _)
\* for inputfile in ...: tasks.append(self.new_task(self.component,
\*     ComponentClass, inputfile=inputfile, **self.passparameters))
NewTasks(hp, Class, paths, bundle, i, list, cache) ==
    IF i > Len(paths)
    THEN [raised |-> "none", returned |-> TRUE, heap |-> hp, list |-> list,
          bundle |-> bundle]
    ELSE IF "inputfile" \in DOMAIN hp[bundle]
         THEN \* inputfile is passed twice as a keyword argument
              [raised |-> "TypeError", returned |-> FALSE, heap |-> hp,
               list |-> <<>>, bundle |-> bundle]
         ELSE The({ NewTasks(Store(hp, ref, Kwargs(hp[bundle], paths[i])),
                             Class, paths, bundle, i + 1,
                             Append(list, [Class |-> Class, ref |-> ref]),
                             cache) :
                    ref \in {NewTaskRef(hp, list,
                                        Kwargs(hp[bundle], paths[i]), i,
                                        cache)} })

\* workflow() of a wrapper, given the input paths it iterates over
FanOut(hp, components, call, paths) ==
    The({ IF c.raised # "none"
          THEN [raised |-> c.raised, returned |-> FALSE, heap |-> hp,
                list |-> <<>>, bundle |-> 0]
          ELSE The({ IF g.raised # "none"
                     THEN [raised |-> g.raised, returned |-> FALSE,
                           heap |-> c.heap, list |-> <<>>, bundle |-> c.ref]
                     ELSE NewTasks(c.heap, g.Class, paths, c.ref, 1, <<>>,
                                   call.cache) :
                     g \in {GetComponentClass(components, call.component, 1)} }) :
          c \in {ConvertBundle(hp, call.passparameters)} })

\* Parallel.workflow
ParallelWorkflow(hp, components, call) ==
    FanOut(hp, components, call,
           IF call.form = "str" THEN Split(call.inputfiles)
           ELSE call.inputfiles)

\* ParallelFromDir.workflow; call.inputfiles is what glob.glob returned
ParallelFromDirWorkflow(hp, components, call) ==
    FanOut(hp, components, call, call.inputfiles)

\* the orders in which a directory listing may return a set of files
Listings(files) ==
    {l \in [1..Cardinality(files) -> files] :
        \A i, j \in 1..Cardinality(files) : i # j => l[i] # l[j]}

\* the passparameters a caller hands over, and the heap holding it
CallerBundles ==
    {[kind |-> k, value |-> b, ref |-> 1] :
        k \in {"dict", "PassParameters"}, b \in BundleChoices}
    \cup {[kind |-> "str", value |-> b, ref |-> 0] : b \in BundleChoices}
    \cup {[kind |-> k, value |-> NoKwargs, ref |-> 0] : k \in {"badstr", "other"}}

CallerHeap(pp) == IF pp.ref = 1 THEN <<pp.value>> ELSE <<>>

InitFanOut ==
    /\ gpc = "load"
    /\ COMPONENTS = <<>>
    /\ gcall = NoCall
    /\ heap = <<>>
    /\ gtasks = NoTasks
    /\ glast = NoOperation
    /\ MatcherIdle
    /\ ResolverIdle
    /\ ParamsIdle
    /\ TaskIdle
    /\ AutoSetupIdle

\* registercomponent(Class), at load time
RegisterComponent(Class) ==
    /\ gpc = "load"
    /\ COMPONENTS' = Register(COMPONENTS, Class)
    /\ glast' = [glast EXCEPT !.op = "registercomponent"]
    /\ UNCHANGED <<gpc, gcall, heap, gtasks>>
    /\ UNCHANGED <<fvars, rvars, pvars, tvars, avars>>

\* the outcome o of workflow() of the wrapper call becomes the state
Called(call, o) ==
    /\ gcall' = call
    /\ heap' = o.heap
    /\ gtasks' = [raised |-> o.raised, returned |-> o.returned,
                  list |-> o.list, bundle |-> o.bundle]
    /\ glast' = [op |-> "workflow", i |-> 0, sets |-> 0,
                 before |-> CallerHeap(call.passparameters)]
    /\ gpc' = "called"
    /\ UNCHANGED COMPONENTS
    /\ UNCHANGED <<fvars, rvars, pvars, tvars, avars>>

\* Parallel(inputfiles=..., component=..., passparameters=...).workflow()
ParallelCall ==
    /\ gpc = "load"
    /\ \E component \in ComponentNames, pp \in CallerBundles,
          form \in {"list", "str"}, cache \in BOOLEAN :
          \E inputfiles \in IF form = "str" THEN InputStrings ELSE InputLists :
             \E call \in {[wrapper |-> "Parallel", component |-> component,
                            form |-> form, inputfiles |-> inputfiles,
                            passparameters |-> pp, cache |-> cache]} :
                \E o \in {ParallelWorkflow(CallerHeap(pp), COMPONENTS, call)} :
                   Called(call, o)

\* ParallelFromDir(directory=..., pattern=..., component=...,
\* passparameters=...).workflow(), for the files the pattern matches and an
\* order in which glob.glob returns them
ParallelFromDirCall ==
    /\ gpc = "load"
    /\ \E component \in ComponentNames, pp \in CallerBundles,
          files \in SUBSET DirFiles, cache \in BOOLEAN :
          \E inputfiles \in Listings(files) :
             \E call \in {[wrapper |-> "ParallelFromDir",
                            component |-> component, form |-> "glob",
                            inputfiles |-> inputfiles,
                            passparameters |-> pp, cache |-> cache]} :
                \E o \in {ParallelFromDirWorkflow(CallerHeap(pp), COMPONENTS,
                                                   call)} :
                   Called(call, o)

\* a parameter of the i-th instance is bound to another value
SetParameter(i, key, value) ==
    /\ gpc = "called"
    /\ gtasks.returned
    /\ i \in 1..Len(gtasks.list)
    /\ glast.sets < MaxSets
    /\ heap' = [heap EXCEPT ![gtasks.list[i].ref] =
                    [k \in DOMAIN @ \cup {key} |->
                        IF k = key THEN value ELSE @[k]]]
    /\ glast' = [op |-> "setparameter", i |-> i, sets |-> glast.sets + 1,
                 before |-> heap]
    /\ UNCHANGED <<gpc, COMPONENTS, gcall, gtasks>>
    /\ UNCHANGED <<fvars, rvars, pvars, tvars, avars>>

NextFanOut ==
    \/ \E Class \in RegClasses : RegisterComponent(Class)
    \/ ParallelCall
    \/ ParallelFromDirCall
    \/ \E i \in 1..(MaxListLen + 1) :
          \/ SetParameter(i, "language", "en")
          \/ SetParameter(i, "inputfile", <<"c">>)

SpecFanOut == InitFanOut /\ [][NextFanOut]_vars

\* ------------------------------------------------------------------------
\* Properties of the format matcher
\* ------------------------------------------------------------------------

\* the statements below describe strings in their own terms, not through the
\* primitives the constructor is modelled with

\* p = q + s for some q
HasSuffix(p, s) == \E k \in 0..Len(p) : p = SubSeq(p, 1, k) \o s

\* a declared extension with one leading dot removed
Undotted(e) == IF Head(e) = "." THEN SubSeq(e, 2, Len(e)) ELSE e

\* the path ends with '.' + e for some declared extension e
SuffixDeclared ==
    \E i \in 1..Len(fextensions) :
        HasSuffix(fpath, <<".">> \o Undotted(fextensions[i]))

\* the path with its last n characters cut off
CutEnd(p, n) == [i \in 1..(IF Len(p) > n THEN Len(p) - n ELSE 0) |-> p[i]]

\* a constructor call that found its input parameter has returned or raised
Built == fpc # "new" /\ fhasparam

\* C6: without force, the constructed InputFormat is valid iff the path ends
\* with '.' + e for a declared extension e (case-sensitive, one leading dot
\* of e stripped) and the file exists; a suffix non-match gives valid = FALSE
\* and raises nothing
C6_ValidIffSuffixAndExists ==
    (Built /\ ~fforce) =>
        /\ (SuffixDeclared /\ fpath \in ffs) =>
               (fformat.raised = "none" /\ fformat.valid)
        /\ (fformat.valid => (SuffixDeclared /\ fpath \in ffs))
        /\ ~SuffixDeclared =>
               (fformat.raised = "none" /\ ~fformat.valid)

\* a dotted extension matched after a declared extension that differs from
\* the path's suffix only by case did not
C6_Witness ==
    /\ Built /\ ~fforce /\ fformat.valid
    /\ fpath = <<"a", ".", "a">>
    /\ fextensions = << <<"A">>, <<".", "a">> >>

\* C7 as stated: with force, construction always succeeds with valid = TRUE
\* and the first declared extension, whatever the path
C7_ForcedAlwaysValid ==
    (Built /\ fforce /\ Len(fextensions) > 0) =>
        /\ fformat.raised = "none"
        /\ fformat.valid
        /\ fformat.extension = Undotted(fextensions[1])

\* C7 amended: with force and at least one declared extension, the first
\* declared extension e (leading dot stripped) is used whatever the path's
\* suffix; the call succeeds with valid = TRUE, extension = e exactly when
\* the file named by the path with its last len(e)+1 characters replaced by
\* '.' + e exists, and raises FileNotFoundError otherwise
C7_ForcedUsesFirstExtension ==
    (Built /\ fforce /\ Len(fextensions) > 0) =>
        LET e == Undotted(fextensions[1])
            b == CutEnd(fpath, Len(e) + 1)
        IN  IF (b \o <<".">> \o e) \in ffs
            THEN /\ fformat.raised = "none"
                 /\ fformat.valid
                 /\ fformat.extension = e
                 /\ fformat.basename = b
            ELSE /\ fformat.raised = "FileNotFoundError"
                 /\ ~fformat.valid

\* a forced match on a path whose suffix is no declared extension
C7_Witness ==
    /\ Built /\ fforce /\ fformat.valid
    /\ ~SuffixDeclared
    /\ fformat.extension = Undotted(fextensions[1])

\* C8 as stated: a declared extension matches but the file is absent, and
\* the failure is of kind MissingInput
C8_MissingInputKind ==
    (Built /\ ~fforce /\ SuffixDeclared /\ fpath \notin ffs) =>
        fformat.raised = "MissingInput"

\* ------------------------------------------------------------------------
\* Properties of the chain resolver
\* ------------------------------------------------------------------------

\* setup_input of Main is running or has ended
InMain == top = "Main" /\ pc \in {"group", "item", "groupend", "done"}

\* C1 as stated: once every item of a group resolved, setup_input returns
\* that group's feed and no later group is started
C1_ResolvedGroupReturns ==
    (InMain /\ fullgroup # 0) =>
        /\ own + inj = fullgroup
        /\ pc \in {"groupend", "done"}
        /\ pc = "done" => (result.st = "return" /\ result.feed = input_feeds)

\* C1 amended: once every item of a group resolved and the feed they built
\* is not empty, setup_input returns that feed at once: no later group is
\* started and nothing is evaluated after the return
C1_FirstMatchWins ==
    [][ /\ (pc = "groupend" /\ ~broke /\ DOMAIN input_feeds # {}) =>
              /\ pc' = "done"
              /\ result'.st = "return"
              /\ result'.feed = input_feeds
              /\ own' = own /\ inj' = inj /\ nitems' = nitems
        /\ pc = "done" => UNCHANGED <<own, inj, nitems, last, result>> ]_vars

\* the first group, of a component and a format that both resolved, was
\* returned
C1_Witness ==
    /\ InMain /\ pc = "done" /\ result.st = "return"
    /\ own = 1 /\ ~broke /\ nitems = 2 /\ fullgroup = 1
    /\ Cardinality(DOMAIN result.feed) = 2

\* C2 as stated: a feed is returned only for a group whose every item
\* resolved
C2_AllOrNothing ==
    (InMain /\ pc = "done" /\ result.st = "return") => ~broke

\* C3: setup_input never returns an empty feed, and when the group loop runs
\* out of groups it raises InvalidInput: for Main with any groups, and for
\* the library components with no group (Empty) and with a producer that
\* has no output slot (Mute) when no other exception ends the call
C3_NeverEmptyFeed ==
    /\ [](pc = "done" /\ result.st = "return" => DOMAIN result.feed # {})
    /\ [][(pc = "group" /\ pc' = "done") =>
             (result'.st = "raise" /\ result'.exc = "InvalidInput")]_vars
    /\ [](pc = "done" /\ top \in {"Mute", "Empty"} /\
          errs \subseteq {"InvalidInput"} =>
             (result.st = "raise" /\ result.exc = "InvalidInput"))

\* InvalidInput after a group whose items all resolved to producers without
\* output slots
C3_Witness ==
    /\ InMain /\ pc = "done" /\ fullgroup # 0
    /\ result.st = "raise" /\ result.exc = "InvalidInput"

\* C4 as stated: in an accepted group, a format-id is bound to all the slots
\* produced for it, in encounter order: a scalar for one, a list for more
C4_FanInMerge ==
    (InMain /\ pc = "done" /\ result.st = "return" /\ ~broke) =>
        \A X \in DOMAIN produced :
            /\ X \in DOMAIN result.feed
            /\ result.feed[X].slots = produced[X]
            /\ result.feed[X].list <=> Len(produced[X]) > 1

\* C5: every exception other than InvalidInput that is raised anywhere below
\* the top-level call ends that call as the exception it raises
C5_OnlyInvalidInputCaught ==
    \A e \in errs \ {"InvalidInput"} :
        /\ pc \in {"done", "wfdone"}
        /\ result.st = "raise"
        /\ result.exc = e

\* the first group's sub-component fails with AutoSetupError on an input the
\* second group's format matches
C5_Witness ==
    /\ pc = "wfdone" /\ top = "Fallback"
    /\ self = [inputfile |-> DT, startcomponent |-> "", inputslot |-> ""]
    /\ DT \in fs
    /\ result.st = "raise" /\ result.exc = "AutoSetupError"

\* the source-task slots of a feed
SourceIds(feed) ==
    UNION { { feed[X].slots[i].format_id :
                i \in {j \in 1..Len(feed[X].slots) :
                          feed[X].slots[j].task = "InputTask"} } :
            X \in DOMAIN feed }

\* C9: with an input-slot restriction, a valid format item with another
\* format-id leaves the item loop without being recorded, and no feed holds a
\* source-task slot for a format-id other than inputslot
C9_InputSlotRestriction ==
    self.inputslot # "" =>
        /\ SourceIds(input_feeds) \subseteq {self.inputslot}
        /\ SourceIds(result.feed) \subseteq {self.inputslot}
        /\ (last.kind = "InputFormat" /\ last.valid /\
            last.format_id # self.inputslot) => last.out = "break"

\* a valid format item was turned away by the restriction alone, after the
\* item for the restricted slot was recorded
C9_Witness ==
    /\ InMain /\ self.inputslot = "txt" /\ self.startcomponent = ""
    /\ last.kind = "InputFormat" /\ last.valid /\ last.format_id = "doc"
    /\ last.out = "break"
    /\ SourceIds(input_feeds) = {"txt"}

\* C10 as stated: resolving a component that refers to itself fails with
\* SchedulingError
C10_SchedulingErrorOnCycle ==
    (pc \in {"done", "wfdone"} /\ top = "Loop") =>
        (result.st = "raise" /\ result.exc = "SchedulingError")

\* C11 as stated: own groups are tried before injected components, and once
\* every own group was passed over, an injected component that can handle
\* the input (Tokenize on an existing .t file, no restriction) yields the
\* feed of its output slots
C11_InjectedUsable ==
    (/\ InMain /\ pc = "done" /\ inj > 0
     /\ accepted_components[inj] = "Tokenize"
     /\ self = [inputfile |-> DT, startcomponent |-> "", inputslot |-> ""]
     /\ DT \in fs
     /\ last.kind = "class") =>
        /\ result.st = "return"
        /\ DOMAIN result.feed = {"tok"}
        /\ result.feed["tok"].slots = <<TaskSlot("TokTask", "tok")>>

\* ------------------------------------------------------------------------
\* Properties of parameter propagation
\* ------------------------------------------------------------------------

\* the value the sub-component should hold for a parameter it declares
Propagated(key) ==
    IF key \in DOMAIN pkwargs THEN pkwargs[key]
    ELSE IF key \in DOMAIN pparent THEN pparent[key]
    ELSE ParameterDefault(key)

\* every parameter the child needs is bound explicitly or held by the parent
Constructible ==
    \A key \in Parameters(pClass) :
        Required(key) => key \in DOMAIN pkwargs \cup DOMAIN pparent

\* C12 as stated: for a wrapped reference and for a bare class alike, the
\* sub-component is constructed with every declared parameter that is not
\* bound explicitly and that the parent holds set to the parent's value,
\* explicit values kept, and no undeclared name added
C12_ParameterPropagation ==
    (ppc = "built" /\ Constructible) =>
        /\ pswf.made
        /\ DOMAIN pswf.params = Parameters(pClass)
        /\ \A key \in Parameters(pClass) : pswf.params[key] = Propagated(key)
        /\ DOMAIN pref \subseteq Parameters(pClass)

\* ------------------------------------------------------------------------
\* Properties of the task's output directories
\* ------------------------------------------------------------------------

\* C13 as stated: on_success on a registered output directory that exists
\* and is empty raises EmptyDirectory and renames the directory to
\* d + '.failed'
C13_EmptyOutputIsFailure ==
    (tpc = "on" /\ tlast.op = "on_success") =>
        \A d \in Registered(task) :
            tlast.before[d] = "empty" =>
                /\ tlast.raised = "EmptyDirectory"
                /\ ~DirExists(disk, d)
                /\ DirExists(disk, Failed(d))

\* C14 as stated: after two or more on_failure calls in a row the disk is
\* as after the first, every registered d is gone, d + '.failed' is there
\* and d + '.failed.failed' is not
C14_FailureMarkingIdempotent ==
    (tpc = "on" /\ fails >= 2) =>
        /\ disk = after1
        /\ \A d \in Registered(task) :
              /\ DirExists(disk, Failed(d))
              /\ ~DirExists(disk, d)
              /\ ~DirExists(disk, Failed(Failed(d)))

\* C14 amended: after two or more on_failure calls in a row the disk is as
\* after the first and no d + '.failed.failed' exists; when the last call
\* returned, every registered d is gone and d + '.failed' is there; a call
\* raises only OSError, and only when some registered d and d + '.failed'
\* both exist (the rename onto the existing directory was refused)
C14_FailureMarkingRepeats ==
    (tpc = "on" /\ fails >= 2) =>
        /\ disk = after1
        /\ \A d \in Registered(task) : ~DirExists(disk, Failed(Failed(d)))
        /\ tlast.raised = "none" =>
              \A d \in Registered(task) :
                  DirExists(disk, Failed(d)) /\ ~DirExists(disk, d)
        /\ tlast.raised # "none" =>
              /\ tlast.raised = "OSError"
              /\ \E d \in Registered(task) :
                    /\ DirExists(disk, d) /\ DirExists(disk, Failed(d))
                    /\ ~posix \/ disk[Failed(d)] = "full"

\* a second on_failure call in a row found D with its files already marked
\* and changed nothing
C14_Witness ==
    /\ tpc = "on" /\ fails = 2 /\ tlast.raised = "none"
    /\ Registered(task) = {<<"D">>}
    /\ disk[<<"D">>] = "absent" /\ disk[Failed(<<"D">>)] = "full"
    /\ tlast.before = disk

\* C15 as stated: whenever d + '.failed' exists as setup_output_dir(d) is
\* called, afterwards d exists and d + '.failed' does not
C15_RetryByRename ==
    (tpc = "on" /\ tlast.op = "setup_output_dir" /\
     DirExists(tlast.before, Failed(tlast.dir))) =>
        /\ DirExists(disk, tlast.dir)
        /\ ~DirExists(disk, Failed(tlast.dir))

\* C15 amended: whenever d + '.failed' exists and d does not as
\* setup_output_dir(d) is called, d + '.failed' is renamed back: afterwards
\* d holds what d + '.failed' held, d + '.failed' is gone and nothing else
\* changed; when d exists already, the disk is left as it is
C15_RetryWhenAbsent ==
    (tpc = "on" /\ tlast.op = "setup_output_dir") =>
        /\ (DirExists(tlast.before, Failed(tlast.dir)) /\
            ~DirExists(tlast.before, tlast.dir)) =>
               /\ disk[tlast.dir] = tlast.before[Failed(tlast.dir)]
               /\ ~DirExists(disk, Failed(tlast.dir))
               /\ \A q \in DiskPaths \ {tlast.dir, Failed(tlast.dir)} :
                     disk[q] = tlast.before[q]
        /\ DirExists(tlast.before, tlast.dir) => disk = tlast.before

\* the files of a failed attempt are back under D for the next attempt
C15_Witness ==
    /\ tpc = "on" /\ tlast.op = "setup_output_dir" /\ tlast.dir = <<"D">>
    /\ tlast.before[<<"D">>] = "absent"
    /\ tlast.before[Failed(<<"D">>)] = "full"
    /\ disk[<<"D">>] = "full" /\ disk[Failed(<<"D">>)] = "absent"

\* ------------------------------------------------------------------------
\* Properties of autosetup
\* ------------------------------------------------------------------------

\* C16: when the feed resolved for an autosetup component holds more than
\* one format-id, setup() raises AutoSetupError and creates no task
C16_SingleInputFormat ==
    (apc = "done" /\ aresolved.st = "return" /\
     Cardinality(DOMAIN aresolved.feed) > 1) =>
        /\ aresult.st = "raise"
        /\ aresult.exc = "AutoSetupError"
        /\ aresult.made = <<>>
        /\ aresult.tasks = <<>>

\* a feed of two format-ids, for a configuration whose candidate takes one
\* of them, was refused
C16_Witness ==
    /\ apc = "done" /\ aresolved.st = "return"
    /\ DOMAIN aresolved.feed = {"txt", "doc"}
    /\ aconfiguration = <<"TokTask">>
    /\ aresult.st = "raise" /\ aresult.exc = "AutoSetupError"

\* the candidates that declare an input slot for a format-id
Takers(X) ==
    {i \in 1..Len(aconfiguration) : X \in TaskDecl(aconfiguration[i]).ins}

\* C17 as stated: for a feed of one format-id X and candidates that are
\* task classes, the first candidate with an input slot for X is the task
\* returned; with no such candidate (an empty list included), or when the
\* chosen task has no output slot, setup() raises AutoSetupError
C17_AutoSetupSelection ==
    (/\ apc = "done" /\ aresolved.st = "return"
     /\ Cardinality(DOMAIN aresolved.feed) = 1
     /\ \A i \in 1..Len(aconfiguration) : TaskDecl(aconfiguration[i]).istask) =>
        LET X == CHOOSE k \in DOMAIN aresolved.feed : TRUE
            chosen == CHOOSE i \in Takers(X) : \A j \in Takers(X) : i <= j
        IN  IF Takers(X) = {} \/ Len(TaskDecl(aconfiguration[chosen]).outs) = 0
            THEN aresult.st = "raise" /\ aresult.exc = "AutoSetupError"
            ELSE /\ aresult.st = "return"
                 /\ aresult.tasks = <<aconfiguration[chosen]>>

\* ------------------------------------------------------------------------
\* Properties of the registry and the fan-out wrappers
\* ------------------------------------------------------------------------

\* C18 as stated: no two entries of the component registry have the same
\* name
C18_RegistryNamesUnique ==
    \A i, j \in 1..Len(COMPONENTS) :
        i # j => COMPONENTS[i].name # COMPONENTS[j].name

\* the parameters of the i-th instance returned
InstanceParams(i) == heap[gtasks.list[i].ref]

\* the mapping the caller passed as bundle, or that its JSON text denotes
CallerBundle == gcall.passparameters.value

RECURSIVE Joined(_)
\* the pieces of a list joined by commas
Joined(list) ==
    IF Len(list) = 0 THEN <<>>
    ELSE IF Len(list) = 1 THEN list[1]
    ELSE list[1] \o <<",">> \o Joined(Tail(list))

\* the arguments of the wrapper let it fan out: the bundle is a mapping or
\* decodes to one, the component name is registered, and the bundle does not
\* bind inputfile a second time for some path
ValidCall ==
    /\ gcall.passparameters.kind \in {"dict", "PassParameters", "str"}
    /\ \E i \in 1..Len(COMPONENTS) : COMPONENTS[i].name = gcall.component
    /\ \/ "inputfile" \notin DOMAIN CallerBundle
       \/ gcall.form # "str" /\ Len(gcall.inputfiles) = 0

\* C19: a wrapper called with valid arguments returns one instance per
\* input path, the i-th bound to the i-th path (of the list, of the pieces
\* of the comma-delimited string, of the directory listing), each an
\* instance of the named component holding the bundle's values, and the
\* instances of different paths are different objects; binding a parameter
\* of one instance afterwards changes no other instance, nor the bundle the
\* wrapper holds, nor the caller's
C19_FanOutOnePerPath ==
    gpc = "called" =>
        /\ gtasks.returned <=> ValidCall
        /\ (glast.op = "workflow" /\ gtasks.returned) =>
              /\ gcall.form # "str" =>
                    /\ Len(gtasks.list) = Len(gcall.inputfiles)
                    /\ \A i \in 1..Len(gtasks.list) :
                          InstanceParams(i)["inputfile"] = gcall.inputfiles[i]
              /\ gcall.form = "str" =>
                    /\ Joined([i \in 1..Len(gtasks.list) |->
                                  InstanceParams(i)["inputfile"]])
                          = gcall.inputfiles
                    /\ \A i \in 1..Len(gtasks.list) :
                          \A k \in 1..Len(InstanceParams(i)["inputfile"]) :
                              InstanceParams(i)["inputfile"][k] # ","
              /\ \A i \in 1..Len(gtasks.list) :
                    /\ gtasks.list[i].Class.name = gcall.component
                    /\ DOMAIN InstanceParams(i) =
                          DOMAIN CallerBundle \cup {"inputfile"}
                    /\ \A key \in DOMAIN CallerBundle \ {"inputfile"} :
                          InstanceParams(i)[key] = CallerBundle[key]
                    /\ \A j \in 1..Len(gtasks.list) :
                          InstanceParams(i)["inputfile"] #
                              InstanceParams(j)["inputfile"]
                          => gtasks.list[i].ref # gtasks.list[j].ref
                    /\ gtasks.list[i].ref # gtasks.bundle
                    /\ gcall.passparameters.ref = 1 => gtasks.list[i].ref # 1
              /\ heap[gtasks.bundle] = CallerBundle
        /\ (glast.op = "setparameter") =>
              /\ \A j \in 1..Len(gtasks.list) :
                    gtasks.list[j].ref # gtasks.list[glast.i].ref
                    => InstanceParams(j) = glast.before[gtasks.list[j].ref]
              /\ heap[gtasks.bundle] = CallerBundle
        /\ gcall.passparameters.ref = 1 => heap[1] = CallerBundle

\* two instances were made for two paths, and the language of the first was
\* bound anew while the second kept the bundle's
C19_Witness ==
    /\ gpc = "called" /\ gtasks.returned /\ glast.op = "setparameter"
    /\ gcall.wrapper = "Parallel" /\ gcall.form = "list"
    /\ gcall.inputfiles = << <<"a">>, <<"b">> >>
    /\ Len(gtasks.list) = 2
    /\ InstanceParams(1) = [inputfile |-> <<"a">>, language |-> "en"]
    /\ InstanceParams(2) = [inputfile |-> <<"b">>, language |-> "nl"]

\* the place of a character in the alphabet
Rank(c) == CASE c = "," -> 0 [] c = "a" -> 1 [] c = "b" -> 2 [] c = "c" -> 3

RECURSIVE PathLess(_, _)
\* p sorts before q
PathLess(p, q) ==
    IF Len(q) = 0 THEN FALSE
    ELSE IF Len(p) = 0 THEN TRUE
    ELSE IF Head(p) # Head(q) THEN Rank(Head(p)) < Rank(Head(q))
    ELSE PathLess(Tail(p), Tail(q))

\* C20 as stated: whatever order the directory listing came in, the
\* instances ParallelFromDir.workflow returns are in sorted path order
C20_SortedFanOut ==
    (gpc = "called" /\ gcall.wrapper = "ParallelFromDir" /\
     gtasks.returned /\ glast.op = "workflow") =>
        \A i, j \in 1..Len(gtasks.list) :
            i < j => PathLess(InstanceParams(i)["inputfile"],
                              InstanceParams(j)["inputfile"])

\* ------------------------------------------------------------------------
\* Properties of the group loop, of accept() and of startcomponent
\* ------------------------------------------------------------------------

\* the slots of a sequence, as a set
SlotSet(slots) == {slots[i] : i \in 1..Len(slots)}

\* C21: every group starts from an empty feed, and a feed setup_input
\* returns holds entries for exactly the format-ids produced while the group
\* it returns from was evaluated, each slot of it produced in that group;
\* Tokenize, whose first group (a txt format) does not match a .c file and
\* whose second group (Convert) resolves, returns exactly Convert's output
\* slot
C21_FeedResetPerGroup ==
    /\ [][(pc = "group" /\ pc' = "item") =>
             (input_feeds' = EmptyFeed /\ nitems' = 0)]_vars
    /\ []((InMain /\ pc = "done" /\ result.st = "return") =>
             /\ DOMAIN result.feed = DOMAIN produced
             /\ \A X \in DOMAIN result.feed :
                   SlotSet(result.feed[X].slots) \subseteq SlotSet(produced[X]))
    /\ []((/\ pc = "done" /\ top = "Tokenize" /\ accepted_components = <<>>
           /\ self = [inputfile |-> DC, startcomponent |-> "", inputslot |-> ""]
           /\ DC \in fs) =>
             /\ result.st = "return"
             /\ result.feed =
                   [X \in {"txt"} |->
                       [list |-> FALSE,
                        slots |-> <<TaskSlot("ConvTask", "txt")>>]])

\* the first group was aborted on a format that did not match, the second
\* resolved a component and its feed was returned
C21_Witness ==
    /\ InMain /\ pc = "done" /\ result.st = "return"
    /\ own = 2 /\ inj = 0 /\ ~broke
    /\ last.kind = "InputComponent"
    /\ "InvalidInput" \notin errs
    /\ result.feed =
          [X \in {"tok"} |->
              [list |-> FALSE, slots |-> <<TaskSlot("TokTask", "tok")>>]]

\* C22 as stated: whatever Main.accept() was given, a component of another
\* class resolves as it does with no injected group at all
C22_AcceptScoped ==
    (pc = "done" /\ top \in Library) =>
        result = SetupInput(top, self,
                            [fs |-> fs, accepted_components |-> <<>>], 0)

\* ------------------------------------------------------------------------
\* Exclusivity of an output directory and its .failed twin
\* ------------------------------------------------------------------------

\* d and d + '.failed' do not both exist
Exclusive(dsk) ==
    \A d \in OutputDirs : ~(DirExists(dsk, d) /\ DirExists(dsk, Failed(d)))

\* C23: from a disk on which no output directory exists together with its
\* .failed twin, setup_output_dir, the task's run, on_failure and on_success
\* lead to such a disk again; none of them raises; and a directory that
\* leaves its path in the step arrives, as it was, at a path that was absent
\* (no rename onto an existing path)
C23_OutputDirExclusive ==
    [][(tpc = "on" /\ Exclusive(disk)) =>
          /\ Exclusive(disk')
          /\ tlast'.raised = "none"
          /\ \A q \in DiskPaths :
                (DirExists(disk, q) /\ ~DirExists(disk', q)) =>
                    \E t \in {q, Failed(q)} \cup {d \in OutputDirs : Failed(d) = q} :
                        /\ ~DirExists(disk, t)
                        /\ disk'[t] = disk[q]
          /\ \A q \in DiskPaths :
                (DirExists(disk, q) /\ DirExists(disk', q) /\ disk'[q] # disk[q])
                    => tlast'.op = "run"]_vars

\* D was set up, written to, marked failed and set up again on one task,
\* and is the only one of the two that exists
C23_Witness ==
    /\ tpc = "on" /\ tlast.op = "setup_output_dir" /\ tlast.dir = <<"D">>
    /\ task[OutputDirAttr] = << <<"D">>, <<"D">> >>
    /\ tlast.before[Failed(<<"D">>)] = "full"
    /\ disk[<<"D">>] = "full" /\ ~DirExists(disk, Failed(<<"D">>))
    /\ Exclusive(disk)

\* ------------------------------------------------------------------------
\* Gating by startcomponent
\* ------------------------------------------------------------------------

\* the format-ids of the raw format items a class declares
OwnFormats(Class) ==
    {Flatten(Accepts(Class))[i].format_id :
        i \in {j \in 1..Len(Flatten(Accepts(Class))) :
                  Flatten(Accepts(Class))[j].kind = "InputFormat"}}

\* startcomponent names another class than the top-level component's
Gated == self.startcomponent # "" /\ self.startcomponent # top

\* C24: while startcomponent names another class, every raw format item of
\* the component leaves the item loop unrecorded, no feed of the component
\* holds a source-task slot, and no source task is created for a format the
\* component itself declares: the source tasks created are those of
\* referenced sub-components
C24_StartComponentGating ==
    Gated =>
        /\ SourceIds(input_feeds) = {}
        /\ SourceIds(result.feed) = {}
        /\ (InMain /\ last.kind = "InputFormat") => last.out = "break"
        /\ (top \in Library /\ pc \in {"done", "wfdone"}) =>
              \A i \in 1..Len(result.made) :
                  result.made[i].task = "InputTask" =>
                      result.made[i].format_id \notin OwnFormats(top)

\* Tokenize, started at Convert on an existing .c file, passed over its own
\* txt format and returned the slot of Convert's task, for which Convert
\* created the source task of its doc format
C24_Witness ==
    /\ pc = "done" /\ top = "Tokenize"
    /\ self = [inputfile |-> DC, startcomponent |-> "Convert", inputslot |-> ""]
    /\ DC \in fs
    /\ result.st = "return"
    /\ DOMAIN result.feed = {"txt"}
    /\ result.feed["txt"].slots = <<TaskSlot("ConvTask", "txt")>>
    /\ \E i \in 1..Len(result.made) : result.made[i] = SourceSlot("doc")

\* ------------------------------------------------------------------------
\* Resolutions per setup of an autosetup component
\* ------------------------------------------------------------------------

\* the source tasks among the tasks a call created
SourceTasks(made_) ==
    {i \in 1..Len(made_) : made_[i].task = "InputTask"}

\* C25 as stated: an autosetup component resolves its acceptance rules once
\* per setup: workflow() of it creates the source tasks of one setup_input
\* call, and setup_input of Tokenize on a .c file, which resolves Convert as
\* a sub-component, creates the one source task of Convert's doc format
C25_ResolvedOncePerSetup ==
    /\ (/\ pc = "wfdone" /\ top \in Library
        /\ SetupDecl(top).kind = "autosetup"
        /\ result.st = "return") =>
           Cardinality(SourceTasks(result.made)) =
               Cardinality(SourceTasks(SetupInput(top, self, Env, 0).made))
    /\ (/\ pc = "done" /\ top = "Tokenize" /\ result.st = "return"
        /\ self.inputfile = DC) =>
           Cardinality(SourceTasks(result.made)) = 1

====
